---- MODULE Spec2Model ----
(***************************************************************************)
(* Model of the uptime monitor in main.go: the startup sequence, the       *)
(* startup pass, the periodic tick loop with the checkedURLs map, the      *)
(* goroutine that replaces the map, and checkWebsite with every external   *)
(* call it makes.                                                          *)
(*                                                                         *)
(* Time is not modelled.  time.Sleep only guarantees a minimum delay and   *)
(* every network or database call of a check may block for any length of   *)
(* time, so the reset goroutine and the tick loop interleave freely.       *)
(*                                                                         *)
(* checkedURLs is read and written by the tick loop and replaced by the    *)
(* reset goroutine without synchronisation.  The statement                 *)
(* checkedURLs[url] = true loads the map reference and then stores into    *)
(* that map; the two halves are separate steps (MarkLoad, MarkStore) and a *)
(* reset that falls between them makes the store land in the discarded map.*)
(***************************************************************************)
EXTENDS Integers, Sequences, FiniteSets, TLC

VARIABLES
    pc,           \* position of the main goroutine
    exitCode,     \* process exit code, NoExit while the process lives
    websites,     \* the slice returned by the last successful getWebsiteURLs
    idx,          \* position of the range loop in websites
    checkedURLs,  \* keys of the global map checkedURLs
    stale,        \* the map reference loaded by line 95 has been replaced since
    resetRunning, \* the reset goroutine of lines 73-79 has been started
    resp,         \* result of the http.Get of the step just taken, or NoResp
    calls,        \* external calls issued by the step just taken, in order
    act,          \* name of the step just taken
    dropped,      \* history: keys discarded by the step just taken
    probes,       \* history: checkWebsite calls per URL since the last reset (saturating)
    tickClean,    \* history: no reset since the current tick fired
    cleanTicked,  \* history: URLs of lists handled by ticks that completed with
                  \*          no reset since they fired, cleared by every reset
    startFetchFailed \* history: the getWebsiteURLs of line 57 returned an error

vars == <<pc, exitCode, websites, idx, checkedURLs, stale, resetRunning,
          resp, calls, act, dropped, probes, tickClean, cleanTicked,
          startFetchFailed>>

(***************************************************************************)
(* Bounds and input sets                                                   *)
(***************************************************************************)
MaxLen == 2

URLs == {"https://ok.test", "https://down.test"}

StatusCodes == {200, 503}

RespTimes == {120}

NoExit == -1

ProbeCap == 2

\* err.Error() of a failed http.Get, as the fragments it is made of
FragTLS == "net/http: TLS handshake timeout"
FragNoHost == "no such host"

ErrTLS == <<"Get: ", FragTLS>>
ErrNoHost == <<"Get: dial tcp: lookup: ", FragNoHost>>
ErrRefused == <<"Get: dial tcp: ", "connect: connection refused">>
ErrBoth == <<"Get /", FragNoHost, ": ", FragTLS>>

ErrTexts == {ErrTLS, ErrNoHost, ErrRefused, ErrBoth}

NoResp == [url |-> "", kind |-> "none", err |-> <<>>, code |-> 0, rt |-> 0]

GetResults ==
    [kind : {"err"}, err : ErrTexts, code : {0}, rt : {0}]
    \cup [kind : {"resp"}, err : {<<>>}, code : StatusCodes, rt : RespTimes]

SSLResults == {"ok", "dial", "hostname"}

\* outcomes of the fallible external calls of one checkWebsite; a call that
\* the branch taken for get never makes has no outcome to choose, so its field
\* is held at the successful value
Envs ==
    [get : {g \in GetResults : g.kind = "err"},
     st : BOOLEAN, lt : {TRUE}, ssl : {"ok"}, cert : {TRUE},
     slack : BOOLEAN, owner : BOOLEAN, smtp : BOOLEAN]
    \cup [get : {g \in GetResults : g.kind = "resp" /\ g.code = 200},
          st : BOOLEAN, lt : BOOLEAN, ssl : SSLResults, cert : BOOLEAN,
          slack : {TRUE}, owner : {TRUE}, smtp : {TRUE}]
    \cup [get : {g \in GetResults : g.kind = "resp" /\ g.code # 200},
          st : BOOLEAN, lt : {TRUE}, ssl : {"ok"}, cert : {TRUE},
          slack : {TRUE}, owner : BOOLEAN, smtp : BOOLEAN]

RECURSIVE ListsUpTo(_)
ListsUpTo(n) ==
    IF n = 0 THEN {<<>>}
    ELSE LET shorter == ListsUpTo(n - 1)
         IN shorter \cup {Append(s, u) : s \in {t \in shorter : Len(t) = n - 1}, u \in URLs}

Lists == ListsUpTo(MaxLen)

Range(s) == {s[i] : i \in 1..Len(s)}

(***************************************************************************)
(* Text helpers                                                            *)
(***************************************************************************)
RECURSIVE ErrorText(_)
ErrorText(e) == IF e = <<>> THEN "" ELSE Head(e) \o ErrorText(Tail(e))

Contains(e, frag) == \E i \in 1..Len(e) : e[i] = frag

DownLabel(code) == "Down (Status Code: " \o ToString(code) \o ")"

Call(op, url, sev, txt, n, ok) ==
    [op |-> op, url |-> url, sev |-> sev, txt |-> txt, n |-> n, ok |-> ok]

(***************************************************************************)
(* Leaf functions of main.go, as the calls they issue                      *)
(***************************************************************************)
sendSlackMessage(url, sev, txt, ok) == <<Call("chat", url, sev, txt, 0, ok)>>

updateWebsiteStatus(url, status, rt, ok) == <<Call("recordStatus", url, "", status, rt, ok)>>

saveRespTime(url, rt, ok) == <<Call("recordLatencySample", url, "", "", rt, ok)>>

sendEmail(url, status, ok) == <<Call("sendEmail", url, "", status, 0, ok)>>

sendEmailToClient(url, status, e) ==
    <<Call("lookupOwner", url, "", "", 0, e.owner)>>
    \o (IF e.owner THEN sendEmail(url, status, e.smtp) ELSE <<>>)

\* checkSSL: the calls it issues and whether it panics
checkSSL(url, e) ==
    IF e.ssl = "dial"
    THEN [calls |-> <<Call("tlsDial", url, "", "dial", 0, FALSE)>>, panic |-> TRUE]
    ELSE IF e.ssl = "hostname"
    THEN [calls |-> <<Call("tlsDial", url, "", "ok", 0, TRUE),
                      Call("verifyHostname", url, "", "hostname", 0, FALSE)>>,
          panic |-> TRUE]
    ELSE [calls |-> <<Call("tlsDial", url, "", "ok", 0, TRUE),
                      Call("verifyHostname", url, "", "ok", 0, TRUE),
                      Call("recordCertificate", url, "", "issuer", 0, e.cert)>>,
          panic |-> FALSE]

\* the timeout branch if it also mailed the owner
onTLSTimeout_withEmail(url, txt, e) ==
    updateWebsiteStatus(url, txt, 0, e.st)
    \o sendSlackMessage(url, "WARNING", "could be down, please check", e.slack)
    \o sendEmailToClient(url, txt, e)

\* lines 212-219: TLS handshake timeout
onTLSTimeout(url, txt, e) ==
    updateWebsiteStatus(url, txt, 0, e.st)
    \o sendSlackMessage(url, "WARNING", "could be down, please check", e.slack)

\* the no-such-host branch if it returned before line 227
onNoSuchHost_noEmail(url, txt, e) ==
    updateWebsiteStatus(url, txt, 0, e.st)
    \o sendSlackMessage(url, "WARNING", "could be down", e.slack)

\* lines 220-228: no such host
onNoSuchHost(url, txt, e) ==
    updateWebsiteStatus(url, txt, 0, e.st)
    \o sendSlackMessage(url, "WARNING", "could be down", e.slack)
    \o sendEmailToClient(url, txt, e)

\* the fallback branch if it used the wording of the two branches above
onOtherError_warning(url, txt, e) ==
    updateWebsiteStatus(url, txt, 0, e.st)
    \o sendEmailToClient(url, txt, e)
    \o sendSlackMessage(url, "WARNING", "is down", e.slack)

\* lines 229-239: any other transport error
onOtherError(url, txt, e) ==
    updateWebsiteStatus(url, txt, 0, e.st)
    \o sendEmailToClient(url, txt, e)
    \o sendSlackMessage(url, "ATTENTION", "is down", e.slack)

\* the non-200 branch if a failed status write ended the check
onDown_abortOnWriteError(url, g, e) ==
    IF e.st
    THEN updateWebsiteStatus(url, DownLabel(g.code), 0, e.st)
         \o sendEmailToClient(url, DownLabel(g.code), e)
    ELSE updateWebsiteStatus(url, DownLabel(g.code), 0, e.st)

\* lines 255-263: a response with a status other than 200; err is nil here,
\* so the guard of line 260 is false and line 261 never runs
onDown(url, g, e) ==
    updateWebsiteStatus(url, DownLabel(g.code), 0, e.st)
    \o sendEmailToClient(url, DownLabel(g.code), e)
    \o (IF g.kind = "err"
        THEN sendSlackMessage(url, "WARNING", "is down", e.slack)
        ELSE <<>>)

\* the 200 branch with the message of line 249 still sent
onUp_chat(url, g, e) ==
    LET ssl == checkSSL(url, e)
    IN [calls |-> updateWebsiteStatus(url, "Up", g.rt, e.st)
                  \o saveRespTime(url, g.rt, e.lt)
                  \o sendSlackMessage(url, "MONITOR", "is up!", e.slack)
                  \o ssl.calls,
        panic |-> ssl.panic]

\* the 200 branch with the sample written only after the certificate check
onUp_sampleLast(url, g, e) ==
    LET ssl == checkSSL(url, e)
    IN [calls |-> updateWebsiteStatus(url, "Up", g.rt, e.st)
                  \o ssl.calls
                  \o (IF ssl.panic THEN <<>> ELSE saveRespTime(url, g.rt, e.lt)),
        panic |-> ssl.panic]

\* lines 246-253: status 200
onUp(url, g, e) ==
    LET ssl == checkSSL(url, e)
    IN [calls |-> updateWebsiteStatus(url, "Up", g.rt, e.st)
                  \o saveRespTime(url, g.rt, e.lt)
                  \o ssl.calls,
        panic |-> ssl.panic]

checkWebsite(url, e) ==
    LET g == e.get
        txt == ErrorText(g.err)
    IN IF g.kind = "err"
       THEN IF Contains(g.err, FragTLS)
            THEN [calls |-> onTLSTimeout(url, txt, e), panic |-> FALSE]
            ELSE IF Contains(g.err, FragNoHost)
            THEN [calls |-> onNoSuchHost(url, txt, e), panic |-> FALSE]
            ELSE [calls |-> onOtherError(url, txt, e), panic |-> FALSE]
       ELSE IF g.code = 200
            THEN onUp(url, g, e)
            ELSE [calls |-> onDown(url, g, e), panic |-> FALSE]

\* the probe of a step: the URL and what http.Get returned for it
Probed(url, g) ==
    [url |-> url, kind |-> g.kind, err |-> g.err, code |-> g.code, rt |-> g.rt]

(***************************************************************************)
(* The checkedURLs map                                                     *)
(***************************************************************************)
shouldCheck(set, url) == url \notin set

\* line 95 left out
markChecked_noop(set, url) == set

markChecked(set, url) == set \cup {url}

\* a reset that expires one key only
resetCheckedURLs_partial(set) ==
    IF set = {} THEN {} ELSE set \ {CHOOSE u \in set : TRUE}

resetCheckedURLs(set) == {}

Bump(p, url) == [p EXCEPT ![url] = IF @ < ProbeCap THEN @ + 1 ELSE @]

(***************************************************************************)
(* Initial state: the process has just started, the map is empty           *)
(***************************************************************************)
Init ==
    /\ pc = "start"
    /\ exitCode = NoExit
    /\ websites = <<>>
    /\ idx = 1
    /\ checkedURLs = {}
    /\ stale = FALSE
    /\ resetRunning = FALSE
    /\ resp = NoResp
    /\ calls = <<>>
    /\ act = "init"
    /\ dropped = {}
    /\ probes = [u \in URLs |-> 0]
    /\ tickClean = FALSE
    /\ cleanTicked = {}
    /\ startFetchFailed = FALSE

(***************************************************************************)
(* Startup, lines 29-56                                                    *)
(***************************************************************************)
\* what a step that is no check and no reset leaves in the per-step variables
Quiet(name, cs) ==
    /\ act' = name
    /\ calls' = cs
    /\ resp' = NoResp
    /\ dropped' = {}

\* loadEnv: godotenv.Load fails -> os.Exit(1)
LoadEnv ==
    /\ pc = "start"
    /\ \E ok \in BOOLEAN :
          /\ pc' = IF ok THEN "open" ELSE "exited"
          /\ exitCode' = IF ok THEN exitCode ELSE 1
    /\ Quiet("loadEnv", <<>>)
    /\ UNCHANGED <<startFetchFailed, websites, idx, checkedURLs, stale, resetRunning, probes,
                   tickClean, cleanTicked>>

\* sql.Open: on error main returns, which ends the process with exit code 0
OpenStore ==
    /\ pc = "open"
    /\ \E ok \in BOOLEAN, s1 \in BOOLEAN, s2 \in BOOLEAN :
          /\ pc' = IF ok THEN "fetch0" ELSE "exited"
          /\ exitCode' = IF ok THEN exitCode ELSE 0
          /\ Quiet("openStore",
                   sendSlackMessage("", "MONITOR", "Starting script..", s1)
                   \o (IF ok
                       THEN sendSlackMessage("", "MONITOR", "Database connected, Script started", s2)
                       ELSE sendSlackMessage("", "WARNING", "Database connection error", s2)))
    /\ UNCHANGED <<startFetchFailed, websites, idx, checkedURLs, stale, resetRunning, probes,
                   tickClean, cleanTicked>>

(***************************************************************************)
(* Startup pass, lines 57-64                                               *)
(***************************************************************************)
\* the startup fetch error handled like the store error of line 52: return
StartupFetchFail_fatal ==
    /\ pc = "fetch0"
    /\ pc' = "exited"
    /\ exitCode' = 0
    /\ startFetchFailed' = TRUE
    /\ Quiet("startupFetchFail", <<>>)
    /\ UNCHANGED <<websites, idx, checkedURLs, stale, resetRunning, probes,
                   tickClean, cleanTicked>>

\* getWebsiteURLs fails: the error is printed and websites is nil
StartupFetchFail ==
    /\ pc = "fetch0"
    /\ websites' = <<>>
    /\ idx' = 1
    /\ pc' = "pass0"
    /\ startFetchFailed' = TRUE
    /\ Quiet("startupFetchFail", <<>>)
    /\ UNCHANGED <<exitCode, checkedURLs, stale, resetRunning, probes,
                   tickClean, cleanTicked>>

StartupFetch ==
    /\ pc = "fetch0"
    /\ \E l \in Lists : websites' = l
    /\ idx' = 1
    /\ pc' = "pass0"
    /\ Quiet("startupFetch", <<>>)
    /\ UNCHANGED <<startFetchFailed, exitCode, checkedURLs, stale, resetRunning, probes,
                   tickClean, cleanTicked>>

\* one iteration of the range loop of line 62: checkWebsite, no map access
StartupCheck ==
    /\ pc = "pass0"
    /\ idx <= Len(websites)
    /\ \E e \in Envs :
          LET r == checkWebsite(websites[idx], e)
          IN /\ calls' = r.calls
             /\ resp' = Probed(websites[idx], e.get)
             /\ pc' = IF r.panic THEN "panicked" ELSE "pass0"
             /\ exitCode' = IF r.panic THEN 2 ELSE exitCode
             /\ idx' = IF r.panic THEN idx ELSE idx + 1
    /\ act' = "startupCheck"
    /\ dropped' = {}
    /\ probes' = Bump(probes, websites[idx])
    /\ UNCHANGED <<startFetchFailed, websites, checkedURLs, stale, resetRunning, tickClean, cleanTicked>>

\* the loop entered one iteration early
StartupDone_early ==
    /\ pc = "pass0"
    /\ idx >= Len(websites)
    /\ pc' = "wait"
    /\ resetRunning' = TRUE
    /\ Quiet("startupDone", <<>>)
    /\ UNCHANGED <<startFetchFailed, exitCode, websites, idx, checkedURLs, stale, probes,
                   tickClean, cleanTicked>>

\* lines 68-79: the ticker is created and the reset goroutine is started
StartupDone ==
    /\ pc = "pass0"
    /\ idx > Len(websites)
    /\ pc' = "wait"
    /\ resetRunning' = TRUE
    /\ Quiet("startupDone", <<>>)
    /\ UNCHANGED <<startFetchFailed, exitCode, websites, idx, checkedURLs, stale, probes,
                   tickClean, cleanTicked>>

(***************************************************************************)
(* Tick loop, lines 81-99                                                  *)
(***************************************************************************)
\* a fetch error in the loop handled like the store error of line 52: return
TickFetchFail_fatal ==
    /\ pc = "wait"
    /\ pc' = "exited"
    /\ exitCode' = 0
    /\ Quiet("tickFetchFail", <<>>)
    /\ UNCHANGED <<startFetchFailed, websites, idx, checkedURLs, stale, resetRunning,
                   probes, tickClean, cleanTicked>>

\* case <-ticker.C with a failing getWebsiteURLs: continue
TickFetchFail ==
    /\ pc = "wait"
    /\ pc' = "wait"
    /\ Quiet("tickFetchFail", <<>>)
    /\ UNCHANGED <<startFetchFailed, exitCode, websites, idx, checkedURLs, stale, resetRunning,
                   probes, tickClean, cleanTicked>>

TickFetch ==
    /\ pc = "wait"
    /\ \E l \in Lists : websites' = l
    /\ idx' = 1
    /\ pc' = "read"
    /\ tickClean' = TRUE
    /\ Quiet("tickFetch", <<>>)
    /\ UNCHANGED <<startFetchFailed, exitCode, checkedURLs, stale, resetRunning, probes, cleanTicked>>

\* line 93: the read of checkedURLs[url]
TickRead ==
    /\ pc = "read"
    /\ idx <= Len(websites)
    /\ IF shouldCheck(checkedURLs, websites[idx])
       THEN pc' = "check" /\ idx' = idx
       ELSE pc' = "read" /\ idx' = idx + 1
    /\ Quiet("tickRead", <<>>)
    /\ UNCHANGED <<startFetchFailed, exitCode, websites, checkedURLs, stale, resetRunning, probes,
                   tickClean, cleanTicked>>

\* the check followed by continue: the loop moves on without line 95
TickCheck_continue ==
    /\ pc = "check"
    /\ \E e \in Envs :
          LET r == checkWebsite(websites[idx], e)
          IN /\ calls' = r.calls
             /\ resp' = Probed(websites[idx], e.get)
             /\ pc' = IF r.panic THEN "panicked" ELSE "read"
             /\ idx' = IF r.panic THEN idx ELSE idx + 1
             /\ exitCode' = IF r.panic THEN 2 ELSE exitCode
    /\ act' = "tickCheck"
    /\ dropped' = {}
    /\ probes' = Bump(probes, websites[idx])
    /\ UNCHANGED <<startFetchFailed, websites, checkedURLs, stale, resetRunning, tickClean, cleanTicked>>

\* line 94
TickCheck ==
    /\ pc = "check"
    /\ \E e \in Envs :
          LET r == checkWebsite(websites[idx], e)
          IN /\ calls' = r.calls
             /\ resp' = Probed(websites[idx], e.get)
             /\ pc' = IF r.panic THEN "panicked" ELSE "markLoad"
             /\ exitCode' = IF r.panic THEN 2 ELSE exitCode
    /\ act' = "tickCheck"
    /\ dropped' = {}
    /\ probes' = Bump(probes, websites[idx])
    /\ UNCHANGED <<startFetchFailed, websites, idx, checkedURLs, stale, resetRunning, tickClean, cleanTicked>>

\* line 95, first half: the map reference is loaded
MarkLoad ==
    /\ pc = "markLoad"
    /\ pc' = "markStore"
    /\ stale' = FALSE
    /\ Quiet("markLoad", <<>>)
    /\ UNCHANGED <<startFetchFailed, exitCode, websites, idx, checkedURLs, resetRunning, probes,
                   tickClean, cleanTicked>>

\* line 95, second half: the key is stored in the map that was loaded
MarkStore ==
    /\ pc = "markStore"
    /\ checkedURLs' = IF stale THEN checkedURLs
                      ELSE markChecked(checkedURLs, websites[idx])
    /\ stale' = FALSE
    /\ idx' = idx + 1
    /\ pc' = "read"
    /\ Quiet("markStore", <<>>)
    /\ UNCHANGED <<startFetchFailed, exitCode, websites, resetRunning, probes, tickClean, cleanTicked>>

\* the range loop of line 92 is exhausted: back to the select
TickDone ==
    /\ pc = "read"
    /\ idx > Len(websites)
    /\ pc' = "wait"
    /\ cleanTicked' = IF tickClean THEN cleanTicked \cup Range(websites) ELSE cleanTicked
    /\ tickClean' = FALSE
    /\ Quiet("tickDone", <<>>)
    /\ UNCHANGED <<startFetchFailed, exitCode, websites, idx, checkedURLs, stale, resetRunning, probes>>

(***************************************************************************)
(* Reset goroutine, lines 73-79 and 102-105                                *)
(***************************************************************************)
ResetTask ==
    /\ resetRunning
    /\ pc \notin {"exited", "panicked"}
    /\ checkedURLs' = resetCheckedURLs(checkedURLs)
    /\ stale' = (pc = "markStore")
    /\ act' = "reset"
    /\ calls' = <<>>
    /\ resp' = NoResp
    /\ dropped' = checkedURLs
    /\ probes' = [u \in URLs |-> 0]
    /\ tickClean' = FALSE
    /\ cleanTicked' = {}
    /\ UNCHANGED <<startFetchFailed, pc, exitCode, websites, idx, resetRunning>>

Next ==
    \/ LoadEnv
    \/ OpenStore
    \/ StartupFetchFail
    \/ StartupFetch
    \/ StartupCheck
    \/ StartupDone
    \/ TickFetchFail
    \/ TickFetch
    \/ TickRead
    \/ TickCheck
    \/ MarkLoad
    \/ MarkStore
    \/ TickDone
    \/ ResetTask

Spec == Init /\ [][Next]_vars

TypeOK ==
    /\ pc \in {"start", "open", "fetch0", "pass0", "wait", "read", "check",
               "markLoad", "markStore", "exited", "panicked"}
    /\ exitCode \in {NoExit, 0, 1, 2}
    /\ websites \in Lists
    /\ idx \in 1..(MaxLen + 1)
    /\ checkedURLs \subseteq URLs
    /\ stale \in BOOLEAN
    /\ resetRunning \in BOOLEAN
    /\ probes \in [URLs -> 0..ProbeCap]

(***************************************************************************)
(* Properties                                                              *)
(***************************************************************************)
IsCheck == act \in {"startupCheck", "tickCheck"}

CallIdx(op) == {i \in 1..Len(calls) : calls[i].op = op}

ChatIdx(sev) == {i \in CallIdx("chat") : calls[i].sev = sev}

AllForProbedURL == \A i \in 1..Len(calls) : calls[i].url = resp.url

\* the email attempt of sendEmailToClient: one owner lookup, then one send
\* exactly when the lookup found an owner
EmailAttempted ==
    /\ Cardinality(CallIdx("lookupOwner")) = 1
    /\ \A i \in CallIdx("lookupOwner") :
          /\ calls[i].ok => Cardinality(CallIdx("sendEmail")) = 1
          /\ ~calls[i].ok => CallIdx("sendEmail") = {}
          /\ \A j \in CallIdx("sendEmail") : i < j

NoEmail == CallIdx("lookupOwner") = {} /\ CallIdx("sendEmail") = {}

IsTLSTimeout == resp.kind = "err" /\ Contains(resp.err, FragTLS)

IsNoSuchHost == resp.kind = "err" /\ ~Contains(resp.err, FragTLS) /\ Contains(resp.err, FragNoHost)

IsOtherError == resp.kind = "err" /\ ~Contains(resp.err, FragTLS) /\ ~Contains(resp.err, FragNoHost)

IsHTTPFailure == resp.kind = "resp" /\ resp.code # 200

\* C1: a tick never probes a URL, and so issues no store write and no
\* notification for it, when that URL was in the list of an earlier tick and
\* no reset has happened since that earlier tick fired.
C1_SecondTickSkips ==
    /\ pc = "check" => websites[idx] \notin cleanTicked
    /\ act = "tickCheck" =>
          /\ resp.url \notin cleanTicked
          /\ \A i \in 1..Len(calls) : calls[i].url \notin cleanTicked

\* a tick has just skipped a URL that an earlier tick of the same window handled
C1_Witness ==
    /\ act = "tickRead"
    /\ pc = "read"
    /\ idx > 1
    /\ websites[idx - 1] \in cleanTicked

\* C2: a key stays in checkedURLs through every step that is not a reset, the
\* store of a mark puts its key in, and the state after a reset has no key at
\* all, so shouldCheck is true again for every URL at once.
C2_MarkedUntilReset ==
    [][/\ act' # "reset" => \A u \in URLs :
              ~shouldCheck(checkedURLs, u) => ~shouldCheck(checkedURLs', u)
       /\ (act' = "markStore" /\ ~stale) => ~shouldCheck(checkedURLs', websites[idx])
       /\ act' = "reset" => \A u \in URLs : shouldCheck(checkedURLs', u)]_vars

\* a reset has just discarded every URL of the model at once
C2_Witness ==
    /\ act = "reset"
    /\ dropped = URLs
    /\ \A u \in URLs : shouldCheck(checkedURLs, u)

\* C3: every URL in checkedURLs was probed after the most recent reset.
C3_MarkedProbedSinceReset ==
    \A u \in checkedURLs : probes[u] >= 1

\* C4: counting the startup pass and the ticks, no URL is probed more than
\* once between two consecutive resets.
C4_OneProbePerWindow ==
    \A u \in URLs : probes[u] <= 1

\* C5: no check of a tick ends the tick or the process: after every
\* checkWebsite of the tick loop the main goroutine goes on to mark the URL.
C5_CheckNeverAborts ==
    act = "tickCheck" => pc = "markLoad"

\* C6: a failed certificate inspection leaves the process running, writes no
\* certificate record and emits an ATTENTION chat message.
C6_InspectFailureRecoverable ==
    (\E i \in CallIdx("tlsDial") \cup CallIdx("verifyHostname") : ~calls[i].ok) =>
        /\ pc # "panicked"
        /\ CallIdx("recordCertificate") = {}
        /\ Cardinality(ChatIdx("ATTENTION")) = 1

\* C7: a response with a status other than 200 gives exactly one
\* recordStatus(url, "Down (Status Code: N)", 0), exactly one email attempt
\* and exactly one WARNING chat message.
C7_HTTPFailureAlerts ==
    (IsCheck /\ IsHTTPFailure) =>
        /\ Cardinality(CallIdx("recordStatus")) = 1
        /\ \A i \in CallIdx("recordStatus") :
              /\ calls[i].url = resp.url
              /\ calls[i].txt = DownLabel(resp.code)
              /\ calls[i].n = 0
        /\ EmailAttempted
        /\ Cardinality(ChatIdx("WARNING")) = 1

\* C8: a transport failure whose text says no such host (and not TLS handshake
\* timeout) gives one WARNING chat message and one email attempt for the URL.
C8_NoSuchHostChatAndEmail ==
    (IsCheck /\ IsNoSuchHost) =>
        /\ Cardinality(ChatIdx("WARNING")) = 1
        /\ CallIdx("chat") = ChatIdx("WARNING")
        /\ EmailAttempted
        /\ AllForProbedURL

\* a check has just seen no such host and mailed the owner
C8_Witness ==
    /\ IsCheck
    /\ IsNoSuchHost
    /\ CallIdx("sendEmail") # {}

\* C9: a transport failure whose text says TLS handshake timeout gives exactly
\* one chat message, a WARNING, and neither an owner lookup nor a mail.
C9_TLSTimeoutChatOnly ==
    (IsCheck /\ IsTLSTimeout) =>
        /\ Cardinality(ChatIdx("WARNING")) = 1
        /\ CallIdx("chat") = ChatIdx("WARNING")
        /\ NoEmail
        /\ AllForProbedURL

\* a check has just seen a TLS handshake timeout
C9_Witness ==
    /\ IsCheck
    /\ IsTLSTimeout
    /\ ChatIdx("WARNING") # {}

\* C10: any other transport failure gives one ATTENTION chat message and one
\* email attempt for the URL.
C10_OtherErrorAttentionAndEmail ==
    (IsCheck /\ IsOtherError) =>
        /\ Cardinality(ChatIdx("ATTENTION")) = 1
        /\ CallIdx("chat") = ChatIdx("ATTENTION")
        /\ EmailAttempted
        /\ AllForProbedURL

\* a check has just seen another transport failure and mailed the owner
C10_Witness ==
    /\ IsCheck
    /\ IsOtherError
    /\ CallIdx("sendEmail") # {}

IsSuccess == resp.kind = "resp" /\ resp.code = 200

\* C11: a probe that got status 200 issues no chat message, no owner lookup
\* and no mail.
C11_SuccessNoNotification ==
    (IsCheck /\ IsSuccess) =>
        /\ CallIdx("chat") = {}
        /\ NoEmail

\* a check has just recorded a 200 response and passed the certificate check
C11_Witness ==
    /\ IsCheck
    /\ IsSuccess
    /\ CallIdx("recordCertificate") # {}

\* C12: every probe issues exactly one recordStatus; it issues exactly one
\* recordLatencySample when the response was 200 and none otherwise.
C12_StatusOnceSampleOnSuccess ==
    IsCheck =>
        /\ Cardinality(CallIdx("recordStatus")) = 1
        /\ IsSuccess => Cardinality(CallIdx("recordLatencySample")) = 1
        /\ ~IsSuccess => CallIdx("recordLatencySample") = {}
        /\ \A i \in CallIdx("recordStatus") \cup CallIdx("recordLatencySample") :
              calls[i].url = resp.url

\* a 200 probe whose certificate check then panicked: the sample was written
C12_Witness ==
    /\ IsCheck
    /\ IsSuccess
    /\ pc = "panicked"
    /\ CallIdx("recordLatencySample") # {}

\* C13: a tick whose fetch fails is skipped: the step issues no call and makes
\* no probe, leaves checkedURLs as it was, and the main goroutine is back in
\* the select, where the next tick fetches again.
C13_FetchFailureSkipsTick ==
    [][act' = "tickFetchFail" =>
          /\ pc = "wait"
          /\ pc' = "wait"
          /\ exitCode' = NoExit
          /\ calls' = <<>>
          /\ resp' = NoResp
          /\ probes' = probes
          /\ checkedURLs' = checkedURLs]_vars

\* a fetch has just failed while checkedURLs held marks of an earlier tick
C13_Witness ==
    /\ act = "tickFetchFail"
    /\ pc = "wait"
    /\ checkedURLs # {}

\* C14: when the store cannot be opened the process ends with a non-zero exit
\* code.
C14_OpenFailureNonZeroExit ==
    (act = "openStore" /\ pc = "exited") => exitCode \notin {NoExit, 0}

LoopPcs == {"wait", "read", "check", "markLoad", "markStore"}

TickActs == {"tickFetch", "tickFetchFail", "tickRead", "tickCheck", "markLoad",
             "markStore", "tickDone"}

Count(s, u) == Cardinality({i \in 1..Len(s) : s[i] = u})

Min(a, b) == IF a < b THEN a ELSE b

\* C15: the loop is entered only by the step that ends the startup pass, and
\* at that step every entry of the first fetched list has been probed,
\* duplicates included; no step of the pass runs once the loop is entered or
\* the reset goroutine is started, and no step of a tick runs before.
C15_StartupPassFirst ==
    [][/\ (pc' \in LoopPcs /\ pc \notin LoopPcs) =>
              /\ act' = "startupDone"
              /\ pc = "pass0"
              /\ websites' = websites
              /\ \A u \in URLs : probes[u] = Min(Count(websites, u), ProbeCap)
       /\ (resetRunning' /\ ~resetRunning) => act' = "startupDone"
       /\ act' = "startupCheck" =>
              /\ ~resetRunning
              /\ pc = "pass0"
              /\ resp'.url = websites[idx]
       /\ act' \in TickActs => pc \in LoopPcs]_vars

\* the loop has just been entered after a pass over a list that holds the
\* same URL twice
C15_Witness ==
    /\ act = "startupDone"
    /\ Len(websites) >= 2
    /\ websites[1] = websites[2]
    /\ probes[websites[1]] = 2

\* C16: a tick handles its list in order; a check is made for the URL at the
\* loop position and all its calls are for that URL; the loop leaves a
\* position it has probed only through the store of its mark.
C16_SequentialInOrder ==
    [][/\ act' = "tickCheck" =>
              /\ pc = "check"
              /\ idx' = idx
              /\ websites' = websites
              /\ resp'.url = websites[idx]
              /\ \A i \in 1..Len(calls') : calls'[i].url = websites[idx]
       /\ (pc \in {"check", "markLoad", "markStore"} /\ (idx' # idx \/ pc' \in {"read", "wait"})) =>
              /\ act' = "markStore"
              /\ idx' = idx + 1
       /\ (pc \in LoopPcs /\ idx' # idx) =>
              \/ idx' = idx + 1
              \/ act' = "tickFetch" /\ idx' = 1]_vars

\* the second URL of a list has just been probed after the first was marked
C16_Witness ==
    /\ act = "tickCheck"
    /\ idx = 2
    /\ websites[1] # websites[2]
    /\ websites[1] \in checkedURLs

WriteOps == {"recordStatus", "recordLatencySample", "recordCertificate"}

LookupMissed == \E i \in CallIdx("lookupOwner") : ~calls[i].ok

WriteFailed == \E i \in 1..Len(calls) : calls[i].op \in WriteOps /\ ~calls[i].ok

\* the calls with every store write reported as successful
MaskWrites(cs) ==
    [i \in 1..Len(cs) |-> IF cs[i].op \in WriteOps THEN [cs[i] EXCEPT !.ok = TRUE] ELSE cs[i]]

\* C17: when the owner lookup misses during a check of a tick whose outcome
\* calls for an email, no mail is sent, recordStatus is called once, the chat
\* message of the policy table is sent and the loop goes on to mark the URL.
C17_LookupMissOnlySkipsEmail ==
    (act = "tickCheck" /\ (IsNoSuchHost \/ IsOtherError \/ IsHTTPFailure) /\ LookupMissed) =>
        /\ CallIdx("sendEmail") = {}
        /\ Cardinality(CallIdx("recordStatus")) = 1
        /\ IsOtherError => Cardinality(ChatIdx("ATTENTION")) = 1
        /\ ~IsOtherError => Cardinality(ChatIdx("WARNING")) = 1
        /\ pc = "markLoad"

\* C18: a check in which a store write failed issues the same calls, with the
\* same results of the other calls, and ends the same way as the check with
\* the same inputs and every write successful; in a tick the loop then goes on
\* to mark the URL unless that check panics as well.
C18_WriteFailureChangesNothing ==
    (IsCheck /\ WriteFailed) =>
        \E e \in Envs :
            /\ e.st /\ e.lt /\ e.cert
            /\ Probed(resp.url, e.get) = resp
            /\ LET r == checkWebsite(resp.url, e)
               IN /\ r.calls = MaskWrites(calls)
                  /\ r.panic = (pc = "panicked")
                  /\ (act = "tickCheck" /\ ~r.panic) => pc = "markLoad"

\* a check of a tick whose status write failed has still sent its chat message
\* and the loop is about to mark the URL
C18_Witness ==
    /\ act = "tickCheck"
    /\ \E i \in CallIdx("recordStatus") : ~calls[i].ok
    /\ CallIdx("chat") # {}
    /\ pc = "markLoad"

\* C20: a failed startup fetch leaves the process alive with an empty list;
\* the only step that can follow is the entry into the loop, which starts the
\* reset goroutine without a single probe having been made.
C20_StartupFetchFailureNotFatal ==
    [][/\ act' = "startupFetchFail" =>
              /\ pc' = "pass0"
              /\ websites' = <<>>
              /\ exitCode' = NoExit
              /\ calls' = <<>>
       /\ (startFetchFailed /\ pc = "pass0") =>
              /\ act' = "startupDone"
              /\ pc' = "wait"
              /\ resetRunning'
              /\ exitCode' = NoExit
              /\ \A u \in URLs : probes'[u] = 0]_vars

\* after a failed startup fetch a tick has fetched a list, probed a URL and is
\* about to mark it
C20_Witness ==
    /\ startFetchFailed
    /\ act = "tickCheck"
    /\ pc = "markLoad"

(***************************************************************************)
(* The monitor under the assumptions of the liveness claim: the startup    *)
(* succeeds, every fetch succeeds and returns a list that holds LiveURL,   *)
(* every external call returns (with a result or an error), the main       *)
(* goroutine keeps running and both timers keep firing.                    *)
(***************************************************************************)
LiveURL == "https://ok.test"

LoadEnvOK == LoadEnv /\ pc' = "open"

OpenStoreOK == OpenStore /\ pc' = "fetch0"

StartupFetchLive == StartupFetch /\ LiveURL \in Range(websites')

TickFetchLive == TickFetch /\ LiveURL \in Range(websites')

MainLive ==
    \/ LoadEnvOK
    \/ OpenStoreOK
    \/ StartupFetchLive
    \/ StartupCheck
    \/ StartupDone
    \/ TickFetchLive
    \/ TickRead
    \/ TickCheck
    \/ MarkLoad
    \/ MarkStore
    \/ TickDone

NextLive ==
    \/ MainLive
    \/ ResetTask

LiveSpec ==
    /\ Init
    /\ [][NextLive]_vars
    /\ WF_vars(MainLive)
    /\ WF_vars(ResetTask)

\* C19: a URL that is in every fetched list is probed again and again.
C19_ProbedInfinitelyOften ==
    []<>(IsCheck /\ resp.url = LiveURL)

====
